---- MODULE Spec2Model ----
(***************************************************************************)
(* Model of the goflet uploader of PicGo-Core                              *)
(* (src/src/plugins/uploader/goflet.ts): generateJWT, postOptions and the  *)
(* async handler `handle`.                                                  *)
(*                                                                         *)
(* Representation.                                                         *)
(*  - A JavaScript string is a sequence of lexical atoms.  The separators  *)
(*    "/", "\\", "&" and "=" are atoms of their own; a run of ordinary     *)
(*    characters (such as `file`, `api`, `token`, `a`) is one atom.  The   *)
(*    empty string is << >>, and is falsy as in JavaScript.                *)
(*  - An optional property (img.buffer, img.imgUrl, the goflet config) is  *)
(*    << >> when undefined and << v >> when it holds v.                    *)
(*  - A signed JWT is the one-atom string << [header, payload] >>; the     *)
(*    empty string returned when jwt.sign throws is << >>.                 *)
(*  - path.join is the POSIX one.                                          *)
(***************************************************************************)
EXTENDS Integers, Sequences, FiniteSets, TLC

(* ----------------------------- bounds ---------------------------------- *)
MaxItems == 2
MaxClock == 1
MaxPathLen == 3

(* ------------------------- string helpers ------------------------------ *)

\* String.prototype.replace(/\\/g, '/')
ReplaceBackslashes(s) ==
  [k \in 1..Len(s) |-> IF s[k] = "\\" THEN "/" ELSE s[k]]

\* String.prototype.replace(/^\//, '')
StripLeadingSlash(s) ==
  IF Len(s) > 0 /\ s[1] = "/" THEN Tail(s) ELSE s

\* String.prototype.replace(/\/$/, '')
StripTrailingSlash(s) ==
  IF Len(s) > 0 /\ s[Len(s)] = "/" THEN SubSeq(s, 1, Len(s) - 1) ELSE s

RECURSIVE CollapseSlashes(_)
\* path.normalize restricted to strings without "." and ".." segments:
\* runs of "/" collapse to one "/", a trailing "/" is kept.
CollapseSlashes(s) ==
  IF Len(s) <= 1 THEN s
  ELSE IF s[1] = "/" /\ s[2] = "/" THEN CollapseSlashes(Tail(s))
  ELSE <<s[1]>> \o CollapseSlashes(Tail(s))

RECURSIVE JoinNonEmpty(_)
\* the loop of path.join: non-empty arguments joined by "/"
JoinNonEmpty(parts) ==
  IF Len(parts) = 0 THEN << >>
  ELSE LET rest == JoinNonEmpty(Tail(parts))
       IN  IF Len(parts[1]) = 0 THEN rest
           ELSE IF Len(rest) = 0 THEN parts[1]
           ELSE parts[1] \o <<"/">> \o rest

\* path.join(...parts) of node's path.posix
PathJoin(parts) ==
  LET joined == JoinNonEmpty(parts)
  IN  IF Len(joined) = 0 THEN <<".">> ELSE CollapseSlashes(joined)

(* ------------------------- URLSearchParams ----------------------------- *)

RECURSIVE SplitOn(_, _)
\* the pieces of s between occurrences of the atom sep
SplitOn(s, sep) ==
  IF \A k \in 1..Len(s) : s[k] # sep THEN <<s>>
  ELSE LET p == CHOOSE k \in 1..Len(s) :
                  s[k] = sep /\ \A j \in 1..(k - 1) : s[j] # sep
       IN  <<SubSeq(s, 1, p - 1)>> \o SplitOn(SubSeq(s, p + 1, Len(s)), sep)

\* one name=value piece: split at the first "="; no "=" gives an empty value
ParsePair(piece) ==
  IF \A k \in 1..Len(piece) : piece[k] # "=" THEN <<piece, << >> >>
  ELSE LET p == CHOOSE k \in 1..Len(piece) :
                  piece[k] = "=" /\ \A j \in 1..(k - 1) : piece[j] # "="
       IN  <<SubSeq(piece, 1, p - 1), SubSeq(piece, p + 1, Len(piece))>>

RECURSIVE ParsePieces(_)
ParsePieces(pieces) ==
  IF Len(pieces) = 0 THEN << >>
  ELSE IF Len(pieces[1]) = 0 THEN ParsePieces(Tail(pieces))
  ELSE <<ParsePair(pieces[1])>> \o ParsePieces(Tail(pieces))

\* new URLSearchParams(init): the ordered list of <<name, value>> pairs
URLSearchParamsOf(init) == ParsePieces(SplitOn(init, "&"))

RECURSIVE DropName(_, _)
DropName(params, name) ==
  IF Len(params) = 0 THEN << >>
  ELSE IF params[1][1] = name THEN DropName(Tail(params), name)
  ELSE <<params[1]>> \o DropName(Tail(params), name)

RECURSIVE SearchParamsSet(_, _, _)
\* URLSearchParams.prototype.set: the first pair of that name takes the value
\* and the other pairs of that name are removed; no such pair: append.
SearchParamsSet(params, name, value) ==
  IF Len(params) = 0 THEN << <<name, value>> >>
  ELSE IF params[1][1] = name
       THEN << <<name, value>> >> \o DropName(Tail(params), name)
  ELSE <<params[1]>> \o SearchParamsSet(Tail(params), name, value)

RECURSIVE QueryMapOf(_)
\* searchParams.forEach((value, key) => { queryMap[key] = value })
QueryMapOf(params) ==
  IF Len(params) = 0 THEN << >>
  ELSE LET n    == Len(params)
           m    == QueryMapOf(SubSeq(params, 1, n - 1))
           key  == params[n][1]
       IN  [k \in (DOMAIN m) \cup {key} |->
              IF k = key THEN params[n][2] ELSE m[k]]

(* ------------------------------ base64 --------------------------------- *)

B64Alphabet ==
  <<"A","B","C","D","E","F","G","H","I","J","K","L","M","N","O","P",
    "Q","R","S","T","U","V","W","X","Y","Z","a","b","c","d","e","f",
    "g","h","i","j","k","l","m","n","o","p","q","r","s","t","u","v",
    "w","x","y","z","0","1","2","3","4","5","6","7","8","9","+","/">>

B64Value(c) ==
  IF c = "=" THEN 0 ELSE (CHOOSE k \in 1..64 : B64Alphabet[k] = c) - 1

RECURSIVE Base64Decode(_)
\* Buffer.from(s, 'base64') on padded input: each group of four characters
\* gives three bytes, less one byte per "=" of padding.
Base64Decode(s) ==
  IF Len(s) < 4 THEN << >>
  ELSE LET n == B64Value(s[1]) * 262144 + B64Value(s[2]) * 4096
                + B64Value(s[3]) * 64 + B64Value(s[4])
           bytes == <<n \div 65536, (n \div 256) % 256, n % 256>>
           keep  == IF s[3] = "=" THEN 1 ELSE IF s[4] = "=" THEN 2 ELSE 3
       IN  SubSeq(bytes, 1, keep) \o Base64Decode(SubSeq(s, 5, Len(s)))

(* --------------------- localisation and JSON --------------------------- *)

\* ctx.i18n.translate: an opaque lookup, key -> display string
Translate(key) ==
  CASE key = "AUTH_FAILED"  -> "Auth failed"
    [] key = "SERVER_ERROR" -> "Server error"
    [] OTHER                -> key

\* a response body that is a string
StringBody(text) == [type |-> "string", text |-> text]

\* String(body), the conversion JSON.parse applies to its argument
ToStringOf(body) ==
  IF body.type = "string" THEN body.text ELSE "[object Object]"

\* JSON.parse on the texts a response can carry: the parsed value, or a
\* SyntaxError.  A parsed value is null or an object given by its fields.
JSONParse(text) ==
  CASE text = "{\"error\":\"bad signature\"}" ->
         [threw |-> FALSE, isNull |-> FALSE, fields |-> [error |-> "bad signature"]]
    [] text = "{\"error\":\"\"}" ->
         [threw |-> FALSE, isNull |-> FALSE, fields |-> [error |-> ""]]
    [] text = "{\"msg\":\"denied\"}" ->
         [threw |-> FALSE, isNull |-> FALSE, fields |-> [msg |-> "denied"]]
    [] text = "null" ->
         [threw |-> FALSE, isNull |-> TRUE, fields |-> [msg |-> ""]]
    [] OTHER ->
         [threw |-> TRUE, isNull |-> FALSE, fields |-> [msg |-> "SyntaxError"]]

\* body?.error || fallback
ErrorOr(parsed, fallback) ==
  IF parsed.isNull \/ "error" \notin DOMAIN parsed.fields THEN fallback
  ELSE IF parsed.fields.error = "" THEN fallback
  ELSE parsed.fields.error

(* ---------------------------- generateJWT ------------------------------ *)

\* the permission pushed for an upload token
UploadPermission(options, fileName) ==
  [path    |-> ReplaceBackslashes(
                 PathJoin(<< <<"/", "file", "/">>, options.path, fileName >>)),
   methods |-> <<"POST">>]

\* RetrievePermission with the upload method left in the visit token
RetrievePermission_AlsoPost(options, fileName) ==
  [path    |-> ReplaceBackslashes(
                 PathJoin(<< <<"/", "api", "/", "image", "/">>, options.path, fileName >>)),
   methods |-> <<"GET", "POST">>,
   query   |-> QueryMapOf(URLSearchParamsOf(options.defaultOptions))]

\* the permission pushed for a visit (retrieval) token
RetrievePermission(options, fileName) ==
  [path    |-> ReplaceBackslashes(
                 PathJoin(<< <<"/", "api", "/", "image", "/">>, options.path, fileName >>)),
   methods |-> <<"GET">>,
   query   |-> QueryMapOf(URLSearchParamsOf(options.defaultOptions))]

\* jwt.sign inside try/catch: the signed token, or '' when signing throws
SignOrEmpty(header, payload, signOk) ==
  IF signOk THEN << [header |-> header, payload |-> payload] >> ELSE << >>

\* generateJWT(options, fileName, upload).  t1 and t2 are the values of
\* Math.floor(Date.now() / 1000) at the two reads of the clock; signOk tells
\* whether jwt.sign returns or throws.  The result carries the payload that
\* was built next to the returned token.
generateJWT(options, fileName, upload, t1, t2, signOk) ==
  LET name    == ReplaceBackslashes(fileName)
      header  == [alg |-> options.jwtAlgorithm, typ |-> "JWT"]
      payload == [iss         |-> options.jwtIssuer,
                  iat         |-> t1,
                  nbf         |-> t2,
                  permissions |-> IF upload
                                  THEN <<UploadPermission(options, name)>>
                                  ELSE <<RetrievePermission(options, name)>>]
  IN  [payload |-> payload, token |-> SignOrEmpty(header, payload, signOk)]

(* ---------------------------- postOptions ------------------------------ *)

\* mime.lookup: an opaque lookup; the file names of the model carry no
\* extension, for which the lookup returns false
MimeLookup(fileName) == "false"

postOptions(options, fileName, jwtToken, image) ==
  [method  |-> "POST",
   url     |-> [endpoint |-> options.endpoint,
                path     |-> <<"/", "file", "/">>
                             \o ReplaceBackslashes(PathJoin(<<options.path, fileName>>))],
   headers |-> [Host          |-> options.endpoint.hostname,
                Authorization |-> <<"Bearer ">> \o jwtToken,
                contentType   |-> "multipart/form-data",
                UserAgent     |-> "PicGo"],
   formData |-> [file |-> [value   |-> image,
                           options |-> [filename    |-> fileName,
                                        contentType |-> MimeLookup(fileName)]]],
   resolveWithFullResponse |-> TRUE]

(* ------------------------------- handle -------------------------------- *)

\* gofletOptions.path.replace(/\\/g, '/').replace(/^\//, '').replace(/\/$/, '')
CanonicalBasePath(p) ==
  StripTrailingSlash(StripLeadingSlash(ReplaceBackslashes(p)))

\* Uploadable without the test of the file name
Uploadable_IgnoresName(img) == img.buffer # << >>

\* the condition that admits an item to the upload: img.fileName && img.buffer
Uploadable(img) == img.fileName # << >> /\ img.buffer # << >>

\* IsEmptyToken with the check of the token left out
IsEmptyToken_Never(jwtToken) == FALSE

\* !jwtToken
IsEmptyToken(jwtToken) == jwtToken = << >>

\* let image = img.buffer; if (!image && img.base64Image) image = Buffer.from(...)
ImageOf(img) ==
  IF img.buffer = << >> /\ img.base64Image # << >>
  THEN <<Base64Decode(img.base64Image)>>
  ELSE img.buffer

\* the .catch of ctx.request: the synthetic response of a transport failure
RejectedResponse(err) ==
  [statusCode |-> 400,
   body       |-> [type |-> "object", msg |-> Translate("AUTH_FAILED"), err |-> err]]

\* Uploaded without `delete img.base64Image`
Uploaded_KeepsBase64(options, path, img, visitJwt) ==
  [fileName    |-> img.fileName,
   buffer      |-> << >>,
   base64Image |-> img.base64Image,
   imgUrl      |-> << [endpoint |-> options.endpoint,
                       path     |-> <<"/", "api", "/", "image", "/">> \o path
                                    \o <<"/">> \o ReplaceBackslashes(img.fileName),
                       query    |-> SearchParamsSet(
                                      URLSearchParamsOf(options.defaultOptions),
                                      <<"token">>, visitJwt)] >>]

\* the 201 branch: the item after the two deletes and the imgUrl assignments
Uploaded(options, path, img, visitJwt) ==
  [fileName    |-> img.fileName,
   buffer      |-> << >>,
   base64Image |-> << >>,
   imgUrl      |-> << [endpoint |-> options.endpoint,
                       path     |-> <<"/", "api", "/", "image", "/">> \o path
                                    \o <<"/">> \o ReplaceBackslashes(img.fileName),
                       query    |-> SearchParamsSet(
                                      URLSearchParamsOf(options.defaultOptions),
                                      <<"token">>, visitJwt)] >>]

\* TryBlock without the else branch: a status other than 400 and 201 is let
\* through and the loop goes on
TryBlock_NoElse(options, path, img, res, t1, t2, signOk) ==
  IF res.statusCode = 400 THEN
    LET body == JSONParse(ToStringOf(res.body))
    IN  [threw   |-> TRUE,
         message |-> IF body.threw THEN "SyntaxError"
                     ELSE ErrorOr(body, Translate("AUTH_FAILED")),
         img     |-> img,
         issued  |-> << >>]
  ELSE IF res.statusCode = 201 THEN
    LET visit == generateJWT(options, img.fileName, FALSE, t1, t2, signOk)
    IN  [threw   |-> FALSE,
         message |-> "",
         img     |-> Uploaded(options, path, img, visit.token),
         issued  |-> <<visit>>]
  ELSE
    [threw |-> FALSE, message |-> "", img |-> img, issued |-> << >>]

\* TryBlock with the two deletes done before the status is looked at
TryBlock_DeletesFirst(options, path, img, res, t1, t2, signOk) ==
  LET cleared == [img EXCEPT !.buffer = << >>, !.base64Image = << >>]
  IN  IF res.statusCode = 400 THEN
        LET body == JSONParse(ToStringOf(res.body))
        IN  [threw   |-> TRUE,
             message |-> IF body.threw THEN "SyntaxError"
                         ELSE ErrorOr(body, Translate("AUTH_FAILED")),
             img     |-> cleared,
             issued  |-> << >>]
      ELSE IF res.statusCode = 201 THEN
        LET visit == generateJWT(options, img.fileName, FALSE, t1, t2, signOk)
        IN  [threw   |-> FALSE,
             message |-> "",
             img     |-> Uploaded(options, path, cleared, visit.token),
             issued  |-> <<visit>>]
      ELSE
        LET body == JSONParse(ToStringOf(res.body))
        IN  [threw   |-> TRUE,
             message |-> IF body.threw THEN "SyntaxError"
                         ELSE ErrorOr(body, Translate("SERVER_ERROR")),
             img     |-> cleared,
             issued  |-> << >>]

\* TryBlock with the visit token generated before the status is looked at
TryBlock_VisitTokenFirst(options, path, img, res, t1, t2, signOk) ==
  LET visit == generateJWT(options, img.fileName, FALSE, t1, t2, signOk)
  IN  IF res.statusCode = 400 THEN
        LET body == JSONParse(ToStringOf(res.body))
        IN  [threw   |-> TRUE,
             message |-> IF body.threw THEN "SyntaxError"
                         ELSE ErrorOr(body, Translate("AUTH_FAILED")),
             img     |-> img,
             issued  |-> <<visit>>]
      ELSE IF res.statusCode = 201 THEN
        [threw   |-> FALSE,
         message |-> "",
         img     |-> Uploaded(options, path, img, visit.token),
         issued  |-> <<visit>>]
      ELSE
        LET body == JSONParse(ToStringOf(res.body))
        IN  [threw   |-> TRUE,
             message |-> IF body.threw THEN "SyntaxError"
                         ELSE ErrorOr(body, Translate("SERVER_ERROR")),
             img     |-> img,
             issued  |-> <<visit>>]

\* the body of the try block, up to the point where it completes or throws.
\* threw/message: the exception that leaves the block; img: the item as the
\* block leaves it; issued: the visit token the block generated, if any.
TryBlock(options, path, img, res, t1, t2, signOk) ==
  IF res.statusCode = 400 THEN
    LET body == JSONParse(ToStringOf(res.body))
    IN  [threw   |-> TRUE,
         message |-> IF body.threw THEN "SyntaxError"
                     ELSE ErrorOr(body, Translate("AUTH_FAILED")),
         img     |-> img,
         issued  |-> << >>]
  ELSE IF res.statusCode = 201 THEN
    LET visit == generateJWT(options, img.fileName, FALSE, t1, t2, signOk)
    IN  [threw   |-> FALSE,
         message |-> "",
         img     |-> Uploaded(options, path, img, visit.token),
         issued  |-> <<visit>>]
  ELSE
    LET body == JSONParse(ToStringOf(res.body))
    IN  [threw   |-> TRUE,
         message |-> IF body.threw THEN "SyntaxError"
                     ELSE ErrorOr(body, Translate("SERVER_ERROR")),
         img     |-> img,
         issued  |-> << >>]

\* CatchBlock that rethrows the exception it caught
CatchBlock_Rethrows(e) == e

\* catch (e) { throw new Error(translate('SERVER_ERROR')) }: the message of
\* the error that leaves handle when the try block threw e
CatchBlock(e) == Translate("SERVER_ERROR")

(* ------------------------------ inputs --------------------------------- *)

GofletOptions(p, q) ==
  [endpoint       |-> [protocol |-> "https:", hostname |-> "goflet.example"],
   path           |-> p,
   defaultOptions |-> q,
   jwtIssuer      |-> "picgo",
   jwtSecret      |-> "secret",
   jwtAlgorithm   |-> "HS256"]

\* ctx.getConfig('picBed.goflet'): undefined, or an options object
Configs ==
  { << >>,
    <<GofletOptions(<< >>, << >>)>>,
    <<GofletOptions(<<"d">>, <<"w", "=", "1", "&", "w", "=", "2">>)>>,
    <<GofletOptions(<<"/", "d", "/">>, <<"token", "=", "x", "&", "q", "=", "9">>)>>,
    <<GofletOptions(<<"\\", "d", "\\", "e">>, <<"q", "=", "9">>)>> }

Item(name, buffer, base64Image) ==
  [fileName |-> name, buffer |-> buffer, base64Image |-> base64Image, imgUrl |-> << >>]

\* the items of ctx.output as the host hands them over: with or without a
\* file name, a buffer, a base64 string
ItemShapes ==
  { Item(<<"a">>, << <<1, 2>> >>, << >>),
    Item(<<"a", "\\", "b">>, << <<1, 2>> >>, <<"Q", "Q", "=", "=">>),
    Item(<<"a">>, << >>, <<"Q", "Q", "=", "=">>),
    Item(<<"a">>, << >>, << >>),
    Item(<< >>, << <<1, 2>> >>, << >>) }

StatusCodes == {201, 400, 500}

Bodies ==
  { StringBody("{\"error\":\"bad signature\"}"),
    StringBody("{\"msg\":\"denied\"}"),
    StringBody("<html>Bad Gateway</html>") }

TransportErrors == { "ECONNRESET" }

(* ------------------------------- state --------------------------------- *)

VARIABLES
  config,    \* what ctx.getConfig('picBed.goflet') returns
  items,     \* ctx.output, mutated in place
  items0,    \* ctx.output as it was when handle was called
  pc,        \* position of handle: "start", "loop", "await", "done"
  path,      \* the local `path` of handle
  i,         \* position of the for-of loop in imgList (1-based)
  now,       \* the clock, Math.floor(Date.now() / 1000), as last read
  res,       \* the local `res` of the current iteration, << >> before the first
  result,    \* "none", "ctx" (returned ctx), "false" (returned false), "throw"
  errMsg,    \* message of the error thrown by handle
  issued,    \* log of the generateJWT calls
  calls,     \* log of the ctx.request calls
  outcomes   \* log of how each ctx.request call ended

vars == <<config, items, items0, pc, path, i, now, res, result, errMsg,
          issued, calls, outcomes>>

Init ==
  /\ config \in Configs
  /\ items0 \in UNION { [1..n -> ItemShapes] : n \in 0..MaxItems }
  /\ items = items0
  /\ pc = "start"
  /\ path = << >>
  /\ i = 0
  /\ now = 0
  /\ res = << >>
  /\ result = "none"
  /\ errMsg = ""
  /\ issued = << >>
  /\ calls = << >>
  /\ outcomes = << >>

gofletOptions == config[1]

\* what a read of the clock can return when the read before it returned t:
\* the clock does not go back, and at most one second passes between two reads
ClockAfter(t) == { u \in t..(t + 1) : u <= MaxClock }

(* ------------------------------ actions -------------------------------- *)

\* HandleNoConfig that gives up with false instead of throwing
HandleNoConfig_ReturnsFalse ==
  /\ pc = "start"
  /\ config = << >>
  /\ pc' = "done"
  /\ result' = "false"
  /\ UNCHANGED <<config, items, items0, path, i, now, res, errMsg,
                 issued, calls, outcomes>>

\* lines 72-75: no goflet options
HandleNoConfig ==
  /\ pc = "start"
  /\ config = << >>
  /\ pc' = "done"
  /\ result' = "throw"
  /\ errMsg' = "Can't find goflet options"
  /\ UNCHANGED <<config, items, items0, path, i, now, res, issued, calls, outcomes>>

\* lines 72-77: options found, the base path is canonicalized, the loop starts
HandleBegin ==
  /\ pc = "start"
  /\ config # << >>
  /\ path' = CanonicalBasePath(gofletOptions.path)
  /\ i' = 1
  /\ pc' = "loop"
  /\ UNCHANGED <<config, items, items0, now, res, result, errMsg,
                 issued, calls, outcomes>>

\* line 125: the loop is over, handle returns ctx
LoopEnd ==
  /\ pc = "loop"
  /\ i > Len(items)
  /\ pc' = "done"
  /\ result' = "ctx"
  /\ UNCHANGED <<config, items, items0, path, i, now, res, errMsg,
                 issued, calls, outcomes>>

\* line 79: the condition is false, the iteration does nothing
LoopSkip ==
  /\ pc = "loop"
  /\ i <= Len(items)
  /\ ~Uploadable(items[i])
  /\ i' = i + 1
  /\ UNCHANGED <<config, items, items0, pc, path, now, res, result, errMsg,
                 issued, calls, outcomes>>

\* lines 80-84: jwt.sign throws, generateJWT returns '', handle returns false
LoopTokenFailed ==
  /\ pc = "loop"
  /\ i <= Len(items)
  /\ Uploadable(items[i])
  /\ \E t1 \in ClockAfter(now), signOk \in BOOLEAN : \E t2 \in ClockAfter(t1) :
       LET jwt == generateJWT(gofletOptions, items[i].fileName, TRUE,
                              t1, t2, signOk)
       IN  /\ IsEmptyToken(jwt.token)
           /\ now' = t2
           /\ issued' = Append(issued, [item |-> i, upload |-> TRUE, signOk |-> signOk,
                                        payload |-> jwt.payload, token |-> jwt.token])
  /\ pc' = "done"
  /\ result' = "false"
  /\ UNCHANGED <<config, items, items0, path, i, res, errMsg, calls, outcomes>>

\* lines 80-90: the upload token is signed, the request is built and sent
LoopRequest ==
  /\ pc = "loop"
  /\ i <= Len(items)
  /\ Uploadable(items[i])
  /\ \E t1 \in ClockAfter(now), signOk \in BOOLEAN : \E t2 \in ClockAfter(t1) :
       LET jwt == generateJWT(gofletOptions, items[i].fileName, TRUE,
                              t1, t2, signOk)
           options == postOptions(gofletOptions, items[i].fileName, jwt.token,
                                  ImageOf(items[i]))
       IN  /\ ~IsEmptyToken(jwt.token)
           /\ now' = t2
           /\ issued' = Append(issued, [item |-> i, upload |-> TRUE, signOk |-> signOk,
                                        payload |-> jwt.payload, token |-> jwt.token])
           /\ calls' = Append(calls, [item |-> i, options |-> options])
  /\ pc' = "await"
  /\ UNCHANGED <<config, items, items0, path, i, res, result, errMsg, outcomes>>

\* lines 101-122 with the response r of the request for item i: the try block,
\* the catch clause, and the step to the next iteration
Interpret(r, t1, t2, signOk) ==
  LET try == TryBlock(gofletOptions, path, items[i], r, t1, t2, signOk)
  IN  /\ res' = <<r>>
      /\ items' = [items EXCEPT ![i] = try.img]
      /\ issued' = issued \o
                   [n \in 1..Len(try.issued) |->
                      [item |-> i, upload |-> FALSE, signOk |-> signOk,
                       payload |-> try.issued[n].payload,
                       token |-> try.issued[n].token]]
      /\ IF try.threw
         THEN /\ pc' = "done"
              /\ result' = "throw"
              /\ errMsg' = CatchBlock(try.message)
              /\ i' = i
         ELSE /\ pc' = "loop"
              /\ i' = i + 1
              /\ UNCHANGED <<result, errMsg>>

\* lines 90-91: ctx.request resolves with a response
RequestResolved ==
  /\ pc = "await"
  /\ \E status \in StatusCodes, body \in Bodies, signOk \in BOOLEAN,
        t1 \in ClockAfter(now) : \E t2 \in ClockAfter(t1) :
       \* the clock is read and jwt.sign is called in the 201 branch only
       /\ status # 201 => (t1 = now /\ t2 = now /\ signOk)
       /\ Interpret([statusCode |-> status, body |-> body], t1, t2, signOk)
       /\ now' = t2
       /\ outcomes' = Append(outcomes, [item |-> i, raised |-> FALSE,
                                        statusCode |-> status])
  /\ UNCHANGED <<config, items0, path, calls>>

\* lines 92-100: ctx.request rejects, the catch handler makes up a response
RequestRejected ==
  /\ pc = "await"
  /\ \E err \in TransportErrors :
       /\ Interpret(RejectedResponse(err), now, now, TRUE)
       /\ outcomes' = Append(outcomes, [item |-> i, raised |-> TRUE,
                                        statusCode |-> 400])
  /\ UNCHANGED <<config, items0, path, now, calls>>

Next ==
  \/ HandleNoConfig
  \/ HandleBegin
  \/ LoopEnd
  \/ LoopSkip
  \/ LoopTokenFailed
  \/ LoopRequest
  \/ RequestResolved
  \/ RequestRejected

Spec == Init /\ [][Next]_vars

(* ---------------- the handler over all short base paths ----------------- *)

\* the characters a base path is made of: both separators and a letter
PathAlphabet == {"/", "\\", "d"}

\* every value of gofletOptions.path of at most MaxPathLen characters
PathStrings == UNION { [1..n -> PathAlphabet] : n \in 0..MaxPathLen }

\* handle called with any short base path and a batch of at most one item
InitPaths ==
  /\ config \in { << >> }
                \cup { <<GofletOptions(p, <<"q", "=", "9">>)>> : p \in PathStrings }
  /\ items0 \in UNION { [1..n -> ItemShapes] : n \in 0..1 }
  /\ items = items0
  /\ pc = "start"
  /\ path = << >>
  /\ i = 0
  /\ now = 0
  /\ res = << >>
  /\ result = "none"
  /\ errMsg = ""
  /\ issued = << >>
  /\ calls = << >>
  /\ outcomes = << >>

SpecPaths == InitPaths /\ [][Next]_vars

(* ------------------------- derived notions ----------------------------- *)

\* the ctx.request call for item k ended with a response of status 201
Got201(k) ==
  \E n \in DOMAIN outcomes :
    outcomes[n].item = k /\ ~outcomes[n].raised /\ outcomes[n].statusCode = 201

\* the ctx.request call for item k ended otherwise: another status, or a
\* transport exception
UploadFailed(k) ==
  \E n \in DOMAIN outcomes :
    outcomes[n].item = k /\ (outcomes[n].raised \/ outcomes[n].statusCode # 201)

\* jwt.sign threw while the upload token of item k was generated
UploadSignFailed(k) ==
  \E n \in DOMAIN issued :
    issued[n].item = k /\ issued[n].upload /\ ~issued[n].signOk

\* ctx.request was called for item k
Called(k) == \E n \in DOMAIN calls : calls[n].item = k

\* the Uploaded state of an item: no local payload, a retrieval URL
IsUploaded(img) ==
  img.buffer = << >> /\ img.base64Image = << >> /\ img.imgUrl # << >>

\* the value of the `token` parameter of a retrieval URL, << >> if it has none
TokenParamOf(url) ==
  IF \E n \in DOMAIN url.query : url.query[n][1] = <<"token">>
  THEN url.query[CHOOSE n \in DOMAIN url.query : url.query[n][1] = <<"token">>][2]
  ELSE << >>

\* the last response was a string body with the given text
LastBodyIs(text) ==
  /\ res # << >>
  /\ res[1].body.type = "string"
  /\ res[1].body.text = text

(* ------------------------------ claims --------------------------------- *)

\* C1: when the transport call of an item returns a non-201 response whose
\* body parses and has an `error` field e, handle ends with an error whose
\* message is exactly e.  (Stated as the claim has it; the code does not do it.)
C1_ErrorFieldIsTheMessage ==
  (/\ outcomes # << >>
   /\ ~outcomes[Len(outcomes)].raised
   /\ outcomes[Len(outcomes)].statusCode # 201
   /\ LastBodyIs("{\"error\":\"bad signature\"}"))
  => (pc = "done" /\ result = "throw" /\ errMsg = "bad signature")

\* C2: when the transport call raises a network exception, handle ends with
\* an error carrying the generic authentication-failure message, as for a 400
\* response without an `error` field.  (Stated as the claim has it.)
C2_TransportExceptionIsAuthFailed ==
  /\ (outcomes # << >> /\ outcomes[Len(outcomes)].raised)
       => (pc = "done" /\ result = "throw" /\ errMsg = Translate("AUTH_FAILED"))
  /\ (/\ outcomes # << >>
      /\ ~outcomes[Len(outcomes)].raised
      /\ outcomes[Len(outcomes)].statusCode = 400
      /\ LastBodyIs("{\"msg\":\"denied\"}"))
       => (pc = "done" /\ result = "throw" /\ errMsg = Translate("AUTH_FAILED"))

\* C3: an item with a file name and a base64 string but no buffer is attempted:
\* once the loop is past it, an upload token was issued for it and ctx.request
\* was called with the decoded base64 string; for an item with a buffer the
\* request carries that buffer unchanged.  (Stated as the claim has it.)
C3_Base64OnlyItemIsUploaded ==
  /\ \A k \in DOMAIN items0 :
       (/\ items0[k].fileName # << >>
        /\ items0[k].buffer = << >>
        /\ items0[k].base64Image # << >>
        /\ pc \in {"loop", "done"} /\ i > k)
       => \E n \in DOMAIN calls :
            /\ calls[n].item = k
            /\ calls[n].options.formData.file.value
                 = <<Base64Decode(items0[k].base64Image)>>
  /\ \A n \in DOMAIN calls :
       items0[calls[n].item].buffer # << >>
       => calls[n].options.formData.file.value = items0[calls[n].item].buffer

\* C4: if the upload of item k fails (non-201 response or transport
\* exception), no token is issued and no transport call is made for any item
\* after k, and every item before k that got 201 is still in the Uploaded
\* state (no rollback).
C4_AbortStopsBatchNoRollback ==
  \A k \in DOMAIN items :
    UploadFailed(k) =>
      /\ pc = "done"
      /\ \A n \in DOMAIN issued : issued[n].item <= k
      /\ \A n \in DOMAIN calls : calls[n].item <= k
      /\ \A j \in 1..(k - 1) : Got201(j) => IsUploaded(items[j])

\* C4 witness: the upload of item 2 failed after item 1 was uploaded
C4_Witness ==
  /\ Len(items) = 2
  /\ UploadFailed(2)
  /\ Got201(1)
  /\ IsUploaded(items[1])
  /\ result = "throw"

\* C5: if jwt.sign fails for the upload token of item k, generateJWT returns
\* the empty token without raising, handle returns false (it does not throw),
\* and no transport call is made for item k or any later item.
C5_SignFailureReturnsFalse ==
  \A n \in DOMAIN issued :
    (issued[n].upload /\ ~issued[n].signOk) =>
      /\ issued[n].token = << >>
      /\ pc = "done"
      /\ result = "false"
      /\ \A c \in DOMAIN calls : calls[c].item < issued[n].item

\* C5 witness: signing failed for the second item, after the first was sent
C5_Witness ==
  /\ UploadSignFailed(2)
  /\ Called(1)
  /\ result = "false"

\* C6: an item whose transport call returned 201 is in the Uploaded state,
\* whatever the body, and the loop goes on with the next item; if every item
\* for which an upload token was requested got 201, handle returns ctx; and
\* an item has an imgUrl only if its transport call returned 201.
C6_CreatedMeansUploaded ==
  /\ \A k \in DOMAIN items :
       Got201(k) => (IsUploaded(items[k]) /\ i > k)
  /\ (/\ pc = "done"
      /\ config # << >>
      /\ \A n \in DOMAIN issued : Got201(issued[n].item))
       => result = "ctx"
  /\ \A k \in DOMAIN items : items[k].imgUrl # << >> => Got201(k)

\* C6 witness: a 201 with an unparseable body on an item that carried both a
\* buffer and a base64 string; the loop is at the next item
C6_Witness ==
  /\ pc = "loop"
  /\ i = 2
  /\ Got201(1)
  /\ LastBodyIs("<html>Bad Gateway</html>")
  /\ items0[1].buffer # << >>
  /\ items0[1].base64Image # << >>
  /\ IsUploaded(items[1])

\* C7: every item in the Uploaded state has an imgUrl whose `token` parameter
\* is a non-empty token, whichever signing calls fail.  (Stated as the claim
\* has it.)
C7_RetrievalTokenNonEmpty ==
  \A k \in DOMAIN items :
    IsUploaded(items[k]) => TokenParamOf(items[k].imgUrl[1]) # << >>

\* the ordered <<name, value>> pairs of gofletOptions.defaultOptions
DefaultPairs == URLSearchParamsOf(gofletOptions.defaultOptions)

\* C8: every payload built by generateJWT has exactly one permission; for an
\* upload token its methods are exactly POST and it has no query field; for a
\* visit token its methods are exactly GET and its query field maps every
\* name of defaultOptions to the value of that name's last occurrence, and
\* nothing else.
C8_OnePermissionPerToken ==
  \A n \in DOMAIN issued :
    LET perms == issued[n].payload.permissions
    IN  /\ Len(perms) = 1
        /\ IF issued[n].upload
           THEN /\ perms[1].methods = <<"POST">>
                /\ "query" \notin DOMAIN perms[1]
           ELSE /\ perms[1].methods = <<"GET">>
                /\ "query" \in DOMAIN perms[1]
                /\ DOMAIN perms[1].query
                     = { DefaultPairs[m][1] : m \in DOMAIN DefaultPairs }
                /\ \A m \in DOMAIN DefaultPairs :
                     (\A l \in (m + 1)..Len(DefaultPairs) :
                        DefaultPairs[l][1] # DefaultPairs[m][1])
                     => perms[1].query[DefaultPairs[m][1]] = DefaultPairs[m][2]

\* C8 witness: an upload token and a visit token were built, the visit token
\* for defaultOptions `w=1&w=2`, whose query map is w -> 2
C8_Witness ==
  /\ Len(issued) = 2
  /\ issued[1].upload
  /\ ~issued[2].upload
  /\ gofletOptions.defaultOptions = <<"w", "=", "1", "&", "w", "=", "2">>
  /\ issued[2].payload.permissions[1].query = (<<"w">> :> <<"2">>)

\* C9: in every payload built by generateJWT nbf equals iat, also when the
\* clock advances during the construction.  (Stated as the claim has it.)
C9_NotBeforeEqualsIssuedAt ==
  \A n \in DOMAIN issued : issued[n].payload.nbf = issued[n].payload.iat

\* C10: when the upload of item k fails (jwt.sign fails, non-201 response,
\* transport exception, unparseable body of a non-201 response), item k and
\* the items after it are as the host handed them over.
C10_FailedItemUnmodified ==
  \A k \in DOMAIN items :
    (UploadFailed(k) \/ UploadSignFailed(k)) =>
      \A j \in k..Len(items) : items[j] = items0[j]

\* C10 witness: item 2, which carries a buffer and a base64 string, failed
\* with an unparseable body after item 1 was uploaded
C10_Witness ==
  /\ Len(items) = 2
  /\ Got201(1)
  /\ items[1] # items0[1]
  /\ UploadFailed(2)
  /\ LastBodyIs("<html>Bad Gateway</html>")
  /\ items0[2].buffer # << >>
  /\ items0[2].base64Image # << >>
  /\ items[2] = items0[2]

\* item k lacks a file name, or lacks both a buffer and a base64 string
LacksNameOrPayload(k) ==
  \/ items0[k].fileName = << >>
  \/ (items0[k].buffer = << >> /\ items0[k].base64Image = << >>)

\* C11: an item that lacks a file name, or lacks both a buffer and a base64
\* string, is skipped silently: no token is issued for it, no transport call
\* is made for it, it is left as it was, handle never ends at it with an
\* error or with false, and the loop goes on behind it.
C11_IncompleteItemSkipped ==
  \A k \in DOMAIN items0 :
    LacksNameOrPayload(k) =>
      /\ \A n \in DOMAIN issued : issued[n].item # k
      /\ \A n \in DOMAIN calls : calls[n].item # k
      /\ items[k] = items0[k]
      /\ (i = k => (pc = "loop" /\ result = "none"))

\* C11 witness: handle returned ctx for a batch whose first item has no file
\* name and whose second item was uploaded
C11_Witness ==
  /\ Len(items0) = 2
  /\ items0[1].fileName = << >>
  /\ items0[1].buffer # << >>
  /\ items[1] = items0[1]
  /\ Got201(2)
  /\ IsUploaded(items[2])
  /\ result = "ctx"

\* C12: the canonicalization of the base path at batch start is idempotent
\* and backslash-free, and its result has no leading and no trailing slash,
\* for every base path, repeated leading or trailing slashes included.
\* (Stated as the claim has it.)
C12_CanonicalizationIdempotent ==
  (pc # "start" /\ config # << >>) =>
    /\ CanonicalBasePath(path) = path
    /\ \A k \in DOMAIN path : path[k] # "\\"
    /\ path # << >> => (path[1] # "/" /\ path[Len(path)] # "/")

\* C13: a non-201 response whose body cannot be parsed ends handle with an
\* error carrying the SERVER_ERROR message, the message of the parse exception
\* is never the message of the error handle throws, and a 201 response with
\* an unparseable body does not make handle throw.
C13_ParseErrorNotSurfaced ==
  /\ (/\ outcomes # << >>
      /\ ~outcomes[Len(outcomes)].raised
      /\ outcomes[Len(outcomes)].statusCode # 201
      /\ LastBodyIs("<html>Bad Gateway</html>"))
       => (pc = "done" /\ result = "throw" /\ errMsg = Translate("SERVER_ERROR"))
  /\ result = "throw" => errMsg # "SyntaxError"
  /\ (/\ outcomes # << >>
      /\ ~outcomes[Len(outcomes)].raised
      /\ outcomes[Len(outcomes)].statusCode = 201)
       => result # "throw"

\* C13 witness: a status 500 with an unparseable body ended handle with the
\* SERVER_ERROR message
C13_Witness ==
  /\ outcomes # << >>
  /\ outcomes[Len(outcomes)].statusCode = 500
  /\ LastBodyIs("<html>Bad Gateway</html>")
  /\ result = "throw"
  /\ errMsg = "Server error"

\* C14: without goflet options handle throws the missing-config error at
\* once: no token is issued, no transport call is made, no item is modified.
C14_ConfigMissingThrowsAtOnce ==
  (config = << >> /\ pc # "start") =>
    /\ pc = "done"
    /\ result = "throw"
    /\ errMsg = "Can't find goflet options"
    /\ issued = << >>
    /\ calls = << >>
    /\ items = items0

\* C14 witness: handle has thrown for a batch of two items that could have
\* been uploaded
C14_Witness ==
  /\ config = << >>
  /\ pc = "done"
  /\ result = "throw"
  /\ Len(items0) = 2
  /\ Uploadable(items0[1])
  /\ Uploadable(items0[2])

\* C15: within one call of handle the transport calls are made for strictly
\* increasing item positions (so no item is called twice), at most one call is
\* outstanding, and the upload token of an item is not generated before every
\* item in front of it has got 201 or has been skipped.
C15_SequentialNoRetry ==
  /\ \A m, n \in DOMAIN calls : m < n => calls[m].item < calls[n].item
  /\ Len(calls) = Len(outcomes) + (IF pc = "await" THEN 1 ELSE 0)
  /\ \A n \in DOMAIN issued :
       issued[n].upload =>
         \A j \in 1..(issued[n].item - 1) :
           Got201(j) \/ (~Called(j) /\ ~Uploadable(items0[j]))

\* C15 witness: the call for item 2 is outstanding, the call for item 1 has
\* returned 201
C15_Witness ==
  /\ pc = "await"
  /\ Len(calls) = 2
  /\ calls[1].item = 1
  /\ calls[2].item = 2
  /\ Got201(1)
  /\ Len(outcomes) = 1

\* C18: a visit token is generated for an item only when the transport call
\* of that item has returned 201, by a call of generateJWT of its own that
\* comes after the one for the upload token and builds another payload; the
\* number of visit tokens generated equals the number of uploaded items.
C18_VisitTokenAfter201 ==
  /\ \A n \in DOMAIN issued :
       ~issued[n].upload =>
         /\ Got201(issued[n].item)
         /\ \E m \in 1..(n - 1) :
              /\ issued[m].upload
              /\ issued[m].item = issued[n].item
              /\ issued[m].payload.permissions[1].path
                   # issued[n].payload.permissions[1].path
  /\ Cardinality({ n \in DOMAIN issued : ~issued[n].upload })
       = Cardinality({ k \in DOMAIN items : IsUploaded(items[k]) })

\* C18 witness: item 1 was uploaded and has its visit token, the upload of
\* item 2 failed and no visit token was generated for it
C18_Witness ==
  /\ Len(issued) = 3
  /\ issued[1].upload /\ issued[1].item = 1
  /\ ~issued[2].upload /\ issued[2].item = 1
  /\ issued[3].upload /\ issued[3].item = 2
  /\ UploadFailed(2)
  /\ IsUploaded(items[1])
  /\ ~IsUploaded(items[2])

\* the string has two slashes in a row
HasDuplicateSlash(s) ==
  \E k \in 1..(Len(s) - 1) : s[k] = "/" /\ s[k + 1] = "/"

\* C16: the path of the imgUrl assigned to an uploaded item equals the path
\* in the payload of the visit token generated for that item, and it is
\* /api/image/<canonical base path>/<item name> without a duplicate slash,
\* for every base path, the empty one included.  (Stated as the claim has it.)
C16_RetrievalPathMatchesToken ==
  \A n \in DOMAIN issued :
    ~issued[n].upload =>
      LET url == items[issued[n].item].imgUrl[1]
      IN  /\ url.path = issued[n].payload.permissions[1].path
          /\ ~HasDuplicateSlash(url.path)

\* C17: the path of the URL of every upload request equals the path in the
\* payload of the upload token sent in the Authorization header of that
\* request, for every base path, one with a leading slash included.
\* (Stated as the claim has it.)
C17_UploadPathMatchesToken ==
  \A n \in DOMAIN calls :
    LET bearer == calls[n].options.headers.Authorization[2]
    IN  calls[n].options.url.path = bearer.payload.permissions[1].path

\* C19: the imgUrl of an uploaded item has exactly one `token` parameter, its
\* value is the visit token generated for the item, and the other parameters
\* of the URL are exactly the name -> value constraints in the query field of
\* that token's payload, also when defaultOptions repeats a name or has a
\* `token` name of its own.  (Stated as the claim has it.)
C19_QueryMatchesTokenQuery ==
  \A n \in DOMAIN issued :
    ~issued[n].upload =>
      LET query  == items[issued[n].item].imgUrl[1].query
          tokens == { m \in DOMAIN query : query[m][1] = <<"token">> }
          others == (DOMAIN query) \ tokens
          map    == issued[n].payload.permissions[1].query
      IN  /\ Cardinality(tokens) = 1
          /\ \A m \in tokens : query[m][2] = issued[n].token
          /\ DOMAIN map = { query[m][1] : m \in others }
          /\ \A m \in others : map[query[m][1]] = query[m][2]

====
